---- MODULE Spec2Model ----
(***************************************************************************)
(* Model of SubtitleTranscriber (src/SubtitleTranscriber.py): the          *)
(* timestamp formatter, the output path resolution and the run() pipeline  *)
(* with its cooperative cancellation, at the granularity of the statements *)
(* of run().                                                               *)
(*                                                                         *)
(* Times are pairs of whole seconds and microseconds, as                   *)
(* datetime.timedelta keeps them.  Formatted numbers are sequences of      *)
(* decimal digits.                                                         *)
(* A path is the record [stem, suffix, num, ext] standing for the string   *)
(* stem + suffix + ("_" + num if num > 0) + ext.                           *)
(*                                                                         *)
(* Fault model: the engine may fail to initialise, transcribe() may raise, *)
(* the lazy segment sequence may raise when pulled, and the destination    *)
(* may fail to open or to take a header, a record or the JSON document.    *)
(* The log sink, the cancellation callback, the write of the interruption  *)
(* marker and close() are taken not to raise.                              *)
(*                                                                         *)
(* Spec is one call of run() with a caller that may set the cancellation   *)
(* flag at any moment.  SpecRace adds a second, concurrent run of the same *)
(* request.  SpecApp puts run() inside the App: start_thread, the worker   *)
(* thread of process_video and cancel_task with its modal confirmation.    *)
(* SpecFormat is a lone call of format_timestamp.  SpecRuns is a caller    *)
(* that calls run() again and again on one SubtitleTranscriber.            *)
(***************************************************************************)
EXTENDS Integers, Sequences, FiniteSets, TLC

\* Bounds of the model.
MaxSegs == 3        \* segments the engine yields in one run, at most
MaxExisting == 2    \* candidate paths 0..MaxExisting-1 may exist beforehand
MaxHours == 100     \* largest hour count among the sampled times
MaxFailedInits == 1 \* failed initialisations after which the caller gives up

VARIABLES
    model,              \* self.model: "None" or "WhisperModel"
    pc,                 \* position of the call to run()
    req,                \* the arguments of run()
    cancel_flag,        \* the flag read by cancel_check_callback
    engine_call,        \* the calls of model.transcribe, with their options
    yielded,            \* the segments pulled from the engine so far
    exhausted,          \* whether the engine's sequence has ended
    cur,                \* (i, segment) of the loop, as a sequence of length <= 1
    polls,              \* the results of cancel_check_callback so far
    output_path,        \* output_path, as a sequence of length <= 1
    file_handle,        \* file_handle: {} is None, {p} a handle on p
    open_files,         \* paths this run holds an open file object on
    opened,             \* every path this run has opened for writing
    json_results,       \* json_results
    fs,                 \* the file system: path -> pieces written
    fs0,                \* the file system when the path was resolved
    log,                \* the lines given to log_callback
    pending,            \* how the try block was left: "none", "return", "raise"
    exc,                \* the exception in flight or raised
    outcome,            \* what run() returned or raised
    more,               \* the engine's sequence holds a segment not yet pulled
    written,            \* write calls made so far for the current segment
    set_at,             \* where the run was when the flag became true
    ts_in,              \* argument of a lone format_timestamp call
    ts_out,             \* its result, as a sequence of length <= 1
    is_running,         \* App.is_running
    ui,                 \* the UI thread: "idle", or "asking" in cancel_task
    worker,             \* the worker thread's position in process_video
    workers,            \* how many worker threads are alive
    stale,              \* what became of a flag set after its run had ended
    o_pc,               \* position of a second, concurrent run
    o_path,             \* its output_path, as a sequence of length <= 1
    o_fs0,              \* the files that existed when it resolved its path
    inits,              \* how load_model ended in the earlier runs that called it
    since,              \* how the runs ended that began with the engine loaded
    last_init_failed    \* the run before this one failed to initialise

runvars == <<model, pc, req, cancel_flag, engine_call, yielded, exhausted,
             cur, polls,
             output_path, file_handle, open_files, opened, json_results,
             fs, fs0, log, pending, exc, outcome, more, written, set_at>>
tsvars == <<ts_in, ts_out>>
appvars == <<is_running, ui, worker, workers, stale>>
othervars == <<o_pc, o_path, o_fs0>>
instvars == <<inits, since, last_init_failed>>
envvars == <<tsvars, appvars, othervars, instvars>>
vars == <<runvars, envvars>>

----------------------------------------------------------------------------
\* format_timestamp

RECURSIVE Digits(_)
\* The decimal digits of n >= 0, most significant first.
Digits(n) == IF n < 10 THEN <<n>> ELSE Append(Digits(n \div 10), n % 10)

\* f"{n:0w}": at least w digits, padded with zeros on the left.
ZeroPad(n, w) ==
    LET d == Digits(n)
    IN  IF Len(d) >= w THEN d ELSE [k \in 1..(w - Len(d)) |-> 0] \o d

\* A time in seconds is the record [s, us] that datetime.timedelta keeps for
\* it: whole seconds and 0..999999 microseconds.
Time(s, us) == [s |-> s, us |-> us]

\* A plausible slip: the millisecond field rounded instead of truncated.
format_timestamp_rounded(seconds, separator) ==
    LET td == seconds
        total_seconds == td.s + (td.us \div 1000000)
        hours == total_seconds \div 3600
        minutes == (total_seconds % 3600) \div 60
        secs == total_seconds % 60
        millis == (td.us + 500) \div 1000
    IN  [hh |-> ZeroPad(hours, 2), mm |-> ZeroPad(minutes, 2),
         ss |-> ZeroPad(secs, 2), sep |-> separator, mmm |-> ZeroPad(millis, 3)]

\* format_timestamp(seconds, separator), lines 50-62.  int(td.total_seconds())
\* truncates td.s + td.us / 10^6; td.microseconds is td.us.
format_timestamp(seconds, separator) ==
    LET td == seconds
        total_seconds == td.s + (td.us \div 1000000)
        hours == total_seconds \div 3600
        minutes == (total_seconds % 3600) \div 60
        secs == total_seconds % 60
        millis == td.us \div 1000
    IN  [hh |-> ZeroPad(hours, 2), mm |-> ZeroPad(minutes, 2),
         ss |-> ZeroPad(secs, 2), sep |-> separator, mmm |-> ZeroPad(millis, 3)]

\* The times a lone call of format_timestamp is given.
TimeSamples ==
    { Time(h * 3600 + m * 60 + s, us) :
        h \in {0, 1, 23, 24, 25, MaxHours - 1, MaxHours},
        m \in {0, 1, 59}, s \in {0, 1, 59},
        us \in {0, 999, 1000, 250500, 999499, 999500, 999999} }

----------------------------------------------------------------------------
\* The inputs of run()

Formats == {"srt", "vtt", "txt", "tsv", "json"}
Tasks == {"transcribe", "translate"}
\* initial_prompt: "" stands for None (both are false in `if initial_prompt`).
Prompts == {"", "zh-TW"}

\* file_path, split as os.path.splitext splits it.
SourceFile == [stem |-> "video", ext |-> ".mp4"]

\* The segments the engine may yield: start and end as times, text as a
\* sequence of tokens, " " being whitespace.
SegPool ==
    { [start |-> Time(0, 0), end |-> Time(1, 500000),
       text |-> <<" ", "Hello">>],
      [start |-> Time(1, 234500), end |-> Time(2, 0),
       text |-> <<" ", "World", " ">>] }

Requests ==
    [file_path : {SourceFile}, output_format : Formats, task : Tasks,
     initial_prompt : Prompts, cancel_cb : BOOLEAN]

\* str.strip() on a token sequence.
Strip(t) ==
    LET keep == {k \in 1..Len(t) : t[k] # " "}
        lo == CHOOSE k \in keep : \A j \in keep : k <= j
        hi == CHOOSE k \in keep : \A j \in keep : k >= j
    IN  IF keep = {} THEN <<>> ELSE SubSeq(t, lo, hi)

----------------------------------------------------------------------------
\* Output path resolution

\* suffix = ".en" if task == "translate" else ""
TaskSuffix(task) == IF task = "translate" THEN ".en" ELSE ""

\* base_output_path = os.path.splitext(file_path)[0] + suffix + ext
BaseOutputPath(file_path, output_format, task) ==
    [stem |-> file_path.stem, suffix |-> TaskSuffix(task), num |-> 0,
     ext |-> output_format]

RECURSIVE ResolveLoop(_, _, _, _)
\* while os.path.exists(output_path): output_path = f"{path_no_ext}_{counter}{ext}"
ResolveLoop(existing, base, path, counter) ==
    IF path \in existing
    THEN ResolveLoop(existing, base, [base EXCEPT !.num = counter], counter + 1)
    ELSE path

\* A plausible slip: the existence check left out, the base path always used.
ResolveOutputPathNoCheck(existing, file_path, output_format, task) ==
    BaseOutputPath(file_path, output_format, task)

\* A plausible slip: `if os.path.exists` in place of `while`, one retry only.
ResolveOutputPathOneRetry(existing, file_path, output_format, task) ==
    LET base == BaseOutputPath(file_path, output_format, task)
    IN  IF base \in existing THEN [base EXCEPT !.num = 1] ELSE base

\* Lines 98-112 of run(): the path the run will write to.
ResolveOutputPath(existing, file_path, output_format, task) ==
    LET base == BaseOutputPath(file_path, output_format, task)
    IN  ResolveLoop(existing, base, base, 1)

\* The content of a file that was there before the run.
OldContent == <<[kind |-> "old"]>>

\* The file systems a run may start in: any of the first MaxExisting
\* candidate paths of the request may exist.
InitialFileSystems(r) ==
    LET base == BaseOutputPath(r.file_path, r.output_format, r.task)
    IN  { [p \in {[base EXCEPT !.num = n] : n \in E} |-> OldContent] :
            E \in SUBSET (0..(MaxExisting - 1)) }

----------------------------------------------------------------------------
\* The state after construction (__init__, line 22-26), with the arguments of
\* the call to come and the files present beforehand.

NoOutcome == [kind |-> "none", path |-> <<>>, exc |-> ""]

InitRun(r) ==
    /\ model = "None"
    /\ pc = "idle"
    /\ req = r
    /\ cancel_flag = FALSE
    /\ engine_call = <<>>
    /\ yielded = <<>>
    /\ exhausted = FALSE
    /\ cur = <<>>
    /\ polls = <<>>
    /\ output_path = <<>>
    /\ file_handle = {}
    /\ open_files = {}
    /\ opened = {}
    /\ json_results = <<>>
    /\ fs \in InitialFileSystems(r)
    /\ fs0 = {}
    /\ log = <<>>
    /\ pending = "none"
    /\ exc = ""
    /\ outcome = NoOutcome
    /\ more = FALSE
    /\ written = 0
    /\ set_at = <<>>

\* App.__init__, lines 249-251: no task is running, no cancellation asked.
InitApp ==
    /\ is_running = FALSE
    /\ ui = "idle"
    /\ worker = "none"
    /\ workers = 0
    /\ stale = "none"

\* No second run has been started.
InitOther ==
    /\ o_pc = "off"
    /\ o_path = <<>>
    /\ o_fs0 = {}

\* A new SubtitleTranscriber: no run() has been called on it.
InitInstance ==
    /\ inits = <<>>
    /\ since = {}
    /\ last_init_failed = FALSE

Init ==
    /\ \E r \in Requests : InitRun(r)
    /\ ts_in = [seconds |-> Time(0, 0), separator |-> ","]
    /\ ts_out = <<>>
    /\ InitApp
    /\ InitOther
    /\ InitInstance

Line(k) == [kind |-> k]

\* The destination's content after write(piece) on the open handle h.
WriteTo(f, h, pieces) == [f EXCEPT ![h] = @ \o pieces]

\* open(p, "w"): the file is created, or truncated when it exists.
OpenForWriting(f, p) == (p :> <<>>) @@ f

----------------------------------------------------------------------------
\* run(), lines 64-194

\* run() raises e before the try block is entered.
Raise(e) ==
    /\ pc' = "raised"
    /\ exc' = e
    /\ outcome' = [kind |-> "raise", path |-> <<>>, exc |-> e]

\* A plausible slip: the failure of the initialisation logged but not raised.
LoadModelFailureSwallowed ==
    /\ pc = "idle"
    /\ IF model = "None"
       THEN \/ /\ model' = "WhisperModel"
               /\ log' = log \o <<Line("loading"), Line("download_hint"),
                                  Line("loaded")>>
               /\ UNCHANGED exc
            \/ /\ log' = log \o <<Line("loading"), Line("download_hint"),
                                  Line("gpu_missing")>>
               /\ exc' = "RuntimeError"
               /\ UNCHANGED model
            \/ /\ log' = log \o <<Line("loading"), Line("download_hint"),
                                  Line("load_failed")>>
               /\ exc' = "LoadError"
               /\ UNCHANGED model
       ELSE UNCHANGED <<model, log, exc>>
    /\ pc' = "begin"
    /\ UNCHANGED <<req, cancel_flag, engine_call, yielded, exhausted, cur,
                   polls, output_path, file_handle, open_files, opened,
                   json_results, fs, fs0, pending, outcome,
                   more, written, set_at, envvars>>

\* A plausible slip: `if not self.model` left out, load_model called by
\* every run.
LoadModelAlways ==
    /\ pc = "idle"
    /\ \/ /\ model' = "WhisperModel"
          /\ log' = log \o <<Line("loading"), Line("download_hint"),
                             Line("loaded")>>
          /\ pc' = "begin"
          /\ UNCHANGED <<exc, outcome>>
       \/ /\ log' = log \o <<Line("loading"), Line("download_hint"),
                             Line("gpu_missing")>>
          /\ Raise("RuntimeError")
          /\ UNCHANGED model
       \/ /\ log' = log \o <<Line("loading"), Line("download_hint"),
                             Line("load_failed")>>
          /\ Raise("LoadError")
          /\ UNCHANGED model
    /\ UNCHANGED <<req, cancel_flag, engine_call, yielded, exhausted, cur,
                   polls,
                   output_path, file_handle, open_files, opened, json_results,
                   fs, fs0, pending,
                   more, written, set_at, envvars>>

\* Lines 71-72 and load_model (28-48): the engine is initialised when the
\* instance has none; a failure is logged and raised.
LoadModel ==
    /\ pc = "idle"
    /\ IF model = "None"
       THEN \/ /\ model' = "WhisperModel"
               /\ log' = log \o <<Line("loading"), Line("download_hint"),
                                  Line("loaded")>>
               /\ pc' = "begin"
               /\ UNCHANGED <<exc, outcome>>
            \/ /\ log' = log \o <<Line("loading"), Line("download_hint"),
                                  Line("gpu_missing")>>
               /\ Raise("RuntimeError")
               /\ UNCHANGED model
            \/ /\ log' = log \o <<Line("loading"), Line("download_hint"),
                                  Line("load_failed")>>
               /\ Raise("LoadError")
               /\ UNCHANGED model
       ELSE /\ pc' = "begin"
            /\ UNCHANGED <<model, log, exc, outcome>>
    /\ UNCHANGED <<req, cancel_flag, engine_call, yielded, exhausted, cur,
                   polls,
                   output_path, file_handle, open_files, opened, json_results,
                   fs, fs0, pending,
                   more, written, set_at, envvars>>

\* Lines 86-91: the options handed to model.transcribe.  A missing
\* "initial_prompt" key is the empty sequence.
TranscribeOptions(r) ==
    [beam_size |-> 5, task |-> r.task,
     initial_prompt |-> IF r.initial_prompt # "" THEN <<r.initial_prompt>>
                        ELSE <<>>]

\* Lines 75-83: the start-of-run log lines.
BeginRun ==
    /\ pc = "begin"
    /\ log' = log \o <<Line("separator"), Line("start_time"), Line("file"),
                       Line("task"), Line("format")>>
                  \o (IF req.initial_prompt # "" /\ req.task = "transcribe"
                      THEN <<Line("prompt")>> ELSE <<>>)
    /\ pc' = "transcribe"
    /\ UNCHANGED <<model, req, cancel_flag, engine_call, yielded, exhausted, cur,
                   polls,
                   output_path, file_handle, open_files, opened, json_results,
                   fs, fs0, pending, exc, outcome,
                   more, written, set_at, envvars>>

\* Lines 94-96: the engine is called once; it returns the lazy sequence and
\* the detection info, or raises.  The audio fixes whether the sequence
\* holds a segment; the segments are produced as they are pulled.
Transcribe ==
    /\ pc = "transcribe"
    /\ engine_call' = Append(engine_call, TranscribeOptions(req))
    /\ \/ /\ log' = Append(log, Line("language"))
          /\ more' \in {m \in BOOLEAN : m => MaxSegs > 0}
          /\ pc' = "resolve"
          /\ UNCHANGED <<exc, outcome>>
       \/ /\ Raise("EngineError")
          /\ UNCHANGED <<log, more>>
    /\ UNCHANGED <<model, req, cancel_flag, yielded, exhausted, cur, polls,
                   output_path, file_handle, open_files, opened, json_results,
                   fs, fs0, pending, written, set_at, envvars>>

\* Lines 98-115: the output path is resolved against the files that exist.
Resolve ==
    /\ pc = "resolve"
    /\ output_path' = <<ResolveOutputPath(DOMAIN fs, req.file_path,
                                          req.output_format, req.task)>>
    /\ fs0' = DOMAIN fs
    /\ json_results' = <<>>
    /\ pc' = "open"
    /\ UNCHANGED <<model, req, cancel_flag, engine_call, yielded, exhausted, cur,
                   polls,
                   file_handle, open_files, opened, fs, log, pending, exc,
                   outcome,
                   more, written, set_at, envvars>>

\* Lines 124-127: the header of the format, as the pieces written.
Header(output_format) ==
    IF output_format = "vtt" THEN <<[kind |-> "header", line |-> "WEBVTT"]>>
    ELSE IF output_format = "tsv"
         THEN <<[kind |-> "header", line |-> "start end text"]>>
         ELSE <<>>

\* The try block is left by an exception: the finally clause runs next.
Fail(e) ==
    /\ pending' = "raise"
    /\ exc' = e
    /\ pc' = "finally"

\* A plausible slip: the destination opened before the loop for json too.
OpenOutputForAll ==
    /\ pc = "open"
    /\ LET p == output_path[1]
       IN  /\ fs' = WriteTo(OpenForWriting(fs, p), p, Header(req.output_format))
           /\ file_handle' = {p}
           /\ open_files' = open_files \cup {p}
           /\ opened' = opened \cup {p}
           /\ pc' = "pull"
    /\ UNCHANGED <<model, req, cancel_flag, engine_call, yielded, exhausted, cur,
                   polls, output_path, json_results, fs0, log, pending, exc,
                   outcome, more, written, set_at, envvars>>

\* Lines 117-127: a streaming format opens the destination and writes its
\* header; json opens nothing yet.
OpenOutput ==
    /\ pc = "open"
    /\ LET p == output_path[1]
       IN  IF req.output_format # "json"
           THEN \/ /\ fs' = WriteTo(OpenForWriting(fs, p), p,
                                    Header(req.output_format))
                   /\ file_handle' = {p}
                   /\ open_files' = open_files \cup {p}
                   /\ opened' = opened \cup {p}
                   /\ pc' = "pull"
                   /\ UNCHANGED <<pending, exc>>
                \/ \* open() raises: file_handle stays None
                   /\ Fail("IOError")
                   /\ UNCHANGED <<fs, file_handle, open_files, opened>>
                \/ \* the write of the header raises
                   /\ Header(req.output_format) # <<>>
                   /\ fs' = OpenForWriting(fs, p)
                   /\ file_handle' = {p}
                   /\ open_files' = open_files \cup {p}
                   /\ opened' = opened \cup {p}
                   /\ Fail("IOError")
           ELSE /\ pc' = "pull"
                /\ UNCHANGED <<fs, file_handle, open_files, opened, pending, exc>>
    /\ UNCHANGED <<model, req, cancel_flag, engine_call, yielded, exhausted, cur,
                   polls,
                   output_path, json_results, fs0, log, outcome,
                   more, written, set_at, envvars>>

----------------------------------------------------------------------------
\* The loop over the segments, lines 129-174

\* Line 129, enumerate(segments): the engine yields one more segment, which
\* gets the next index.
PullSegment ==
    /\ pc = "pull"
    /\ more
    /\ \E s \in SegPool :
          /\ yielded' = Append(yielded, s)
          /\ cur' = <<[i |-> IF cur = <<>> THEN 0 ELSE cur[1].i + 1,
                       segment |-> s]>>
    /\ more' \in {m \in BOOLEAN : m => Len(yielded) + 1 < MaxSegs}
    /\ pc' = "poll"
    /\ UNCHANGED <<model, req, cancel_flag, engine_call, exhausted, polls,
                   output_path, file_handle, open_files, opened, json_results,
                   fs, fs0, log, pending, exc, outcome,
                   written, set_at, envvars>>

\* A plausible slip: the callback polled once more when the sequence ends.
PullStopPolls ==
    /\ pc = "pull"
    /\ ~more
    /\ exhausted' = TRUE
    /\ LET r == req.cancel_cb /\ cancel_flag
       IN  /\ polls' = Append(polls, r)
           /\ pending' = IF r THEN "return" ELSE pending
           /\ pc' = IF r \/ req.output_format # "json"
                    THEN "finally" ELSE "json_open"
    /\ UNCHANGED <<model, req, cancel_flag, engine_call, yielded, cur,
                   output_path, file_handle, open_files, opened, json_results,
                   fs, fs0, log, exc, outcome,
                   more, written, set_at, envvars>>

\* Line 129: the sequence is exhausted; the loop ends.
PullStop ==
    /\ pc = "pull"
    /\ ~more
    /\ exhausted' = TRUE
    /\ pc' = IF req.output_format = "json" THEN "json_open" ELSE "finally"
    /\ UNCHANGED <<model, req, cancel_flag, engine_call, yielded, cur, polls,
                   output_path, file_handle, open_files, opened, json_results,
                   fs, fs0, log, pending, exc, outcome,
                   more, written, set_at, envvars>>

\* A plausible slip: the engine's failure caught, the loop left as if the
\* sequence had ended.
PullRaiseSwallowed ==
    /\ pc = "pull"
    /\ exc' = "EngineError"
    /\ pc' = IF req.output_format = "json" THEN "json_open" ELSE "finally"
    /\ UNCHANGED <<model, req, cancel_flag, engine_call, yielded, exhausted,
                   cur, polls, output_path, file_handle, open_files, opened,
                   json_results, fs, fs0, log, pending, outcome,
                   more, written, set_at, envvars>>

\* Line 129: the engine raises while the next segment is produced.
PullRaise ==
    /\ pc = "pull"
    /\ Fail("EngineError")
    /\ UNCHANGED <<model, req, cancel_flag, engine_call, yielded, exhausted, cur,
                   polls,
                   output_path, file_handle, open_files, opened, json_results,
                   fs, fs0, log, outcome,
                   more, written, set_at, envvars>>

\* Line 131: cancel_check_callback and cancel_check_callback()
CancelObserved(cancel_cb, flag) == cancel_cb /\ flag

\* A plausible slip: no marker written on cancellation.
MarkerMissing == <<>>

\* Line 134: the interruption marker.
Marker == <<[kind |-> "marker", line |-> "[Interrupted by User]"]>>

\* A plausible slip: the flag cleared by the run that observes it.
PollConsumesFlag ==
    /\ pc = "poll"
    /\ LET r == CancelObserved(req.cancel_cb, cancel_flag)
       IN  /\ polls' = Append(polls, r)
           /\ IF r
              THEN /\ log' = Append(log, Line("cancelled"))
                   /\ fs' = IF file_handle # {}
                            THEN WriteTo(fs, CHOOSE h \in file_handle : TRUE,
                                         Marker)
                            ELSE fs
                   /\ pending' = "return"
                   /\ pc' = "finally"
                   /\ cancel_flag' = FALSE
              ELSE /\ pc' = "log"
                   /\ UNCHANGED <<log, fs, pending, cancel_flag>>
    /\ UNCHANGED <<model, req, engine_call, yielded, exhausted,
                   cur, output_path, file_handle, open_files, opened,
                   json_results, fs0, exc, outcome,
                   more, written, set_at, envvars>>

\* A plausible slip: the poll made after the segment's log line.
PollAfterLog ==
    /\ pc = "poll"
    /\ LET r == CancelObserved(req.cancel_cb, cancel_flag)
           line == [kind |-> "segment",
                    ts |-> format_timestamp(cur[1].segment.start, ","),
                    text |-> Strip(cur[1].segment.text)]
       IN  /\ polls' = Append(polls, r)
           /\ IF r
              THEN /\ log' = log \o <<line, Line("cancelled")>>
                   /\ fs' = IF file_handle # {}
                            THEN WriteTo(fs, CHOOSE h \in file_handle : TRUE,
                                         Marker)
                            ELSE fs
                   /\ pending' = "return"
                   /\ pc' = "finally"
              ELSE /\ pc' = "log"
                   /\ UNCHANGED <<log, fs, pending>>
    /\ UNCHANGED <<model, req, cancel_flag, engine_call, yielded, exhausted,
                   cur, output_path, file_handle, open_files, opened,
                   json_results, fs0, exc, outcome,
                   more, written, set_at, envvars>>

\* A plausible slip: the marker written, but the loop not left.
PollNoReturn ==
    /\ pc = "poll"
    /\ LET r == CancelObserved(req.cancel_cb, cancel_flag)
       IN  /\ polls' = Append(polls, r)
           /\ IF r
              THEN /\ log' = Append(log, Line("cancelled"))
                   /\ fs' = IF file_handle # {}
                            THEN WriteTo(fs, CHOOSE h \in file_handle : TRUE,
                                         Marker)
                            ELSE fs
              ELSE UNCHANGED <<log, fs>>
           /\ pc' = "log"
           /\ UNCHANGED <<pending>>
    /\ UNCHANGED <<model, req, cancel_flag, engine_call, yielded, exhausted,
                   cur,
                   output_path, file_handle, open_files, opened, json_results,
                   fs0, exc, outcome,
                   more, written, set_at, envvars>>

\* Lines 131-135: the cancellation poll before the segment is processed.
Poll ==
    /\ pc = "poll"
    /\ LET r == CancelObserved(req.cancel_cb, cancel_flag)
       IN  /\ polls' = Append(polls, r)
           /\ IF r
              THEN /\ log' = Append(log, Line("cancelled"))
                   /\ fs' = IF file_handle # {}
                            THEN WriteTo(fs, CHOOSE h \in file_handle : TRUE,
                                         Marker)
                            ELSE fs
                   /\ pending' = "return"
                   /\ pc' = "finally"
              ELSE /\ pc' = "log"
                   /\ UNCHANGED <<log, fs, pending>>
    /\ UNCHANGED <<model, req, cancel_flag, engine_call, yielded, exhausted,
                   cur,
                   output_path, file_handle, open_files, opened, json_results,
                   fs0, exc, outcome,
                   more, written, set_at, envvars>>

\* A plausible slip: the segment written without its log line.
LogSegmentSilent ==
    /\ pc = "log"
    /\ pc' = "write"
    /\ UNCHANGED <<model, req, cancel_flag, engine_call, yielded, exhausted, cur,
                   polls, output_path, file_handle, open_files, opened,
                   json_results, fs, fs0, log, pending, exc, outcome,
                   more, written, set_at, envvars>>

\* Lines 137-143: the segment's log line, its start in the comma form.
LogSegment ==
    /\ pc = "log"
    /\ log' = Append(log, [kind |-> "segment",
                           ts |-> format_timestamp(cur[1].segment.start, ","),
                           text |-> Strip(cur[1].segment.text)])
    /\ pc' = "write"
    /\ UNCHANGED <<model, req, cancel_flag, engine_call, yielded, exhausted, cur,
                   polls,
                   output_path, file_handle, open_files, opened, json_results,
                   fs, fs0, pending, exc, outcome,
                   more, written, set_at, envvars>>

\* A plausible slip: the srt cue numbered from 0, like the json id.
CueNumberFromZero(i) == i

\* Line 169: the cue number of the srt record.
CueNumber(i) == i + 1

\* Line 148: the id of the json record.
JsonId(i) == i

\* Lines 147-152: the record json keeps for the segment.
JsonRecord(i, segment) ==
    [id |-> JsonId(i), start |-> segment.start, end |-> segment.end,
     text |-> Strip(segment.text)]

\* A plausible slip: round(seconds * 1000) in place of int(seconds * 1000).
MillisRounded(seconds) == seconds.s * 1000 + ((seconds.us + 500) \div 1000)

\* int(seconds * 1000), line 160: the whole milliseconds of the time.
Millis(seconds) == seconds.s * 1000 + (seconds.us \div 1000)

\* Lines 155-174: the writes a streaming format makes for the segment, one
\* piece for each call of file_handle.write.
SegmentPieces(output_format, i, segment) ==
    LET text == Strip(segment.text)
        separator == IF output_format = "vtt" THEN "." ELSE ","
        times == [kind |-> "times",
                  start_str |-> format_timestamp(segment.start, separator),
                  end_str |-> format_timestamp(segment.end, separator)]
    IN  IF output_format = "txt" THEN <<[kind |-> "text", text |-> text]>>
        ELSE IF output_format = "tsv"
        THEN <<[kind |-> "row", start_ms |-> Millis(segment.start),
                end_ms |-> Millis(segment.end), text |-> text]>>
        ELSE IF output_format = "srt"
        THEN <<[kind |-> "cue", num |-> CueNumber(i)], times,
               [kind |-> "text", text |-> text]>>
        ELSE IF output_format = "vtt"
        THEN <<times, [kind |-> "text", text |-> text]>>
        ELSE <<>>

\* A plausible slip: the flag looked at again before each write call, the
\* record abandoned when it is set.
WriteSegmentInterruptible ==
    /\ pc = "write"
    /\ LET i == cur[1].i
           segment == cur[1].segment
       IN  IF CancelObserved(req.cancel_cb, cancel_flag)
           THEN /\ pending' = "return"
                /\ pc' = "finally"
                /\ UNCHANGED <<json_results, fs, exc, written>>
           ELSE IF req.output_format = "json"
           THEN /\ json_results' = Append(json_results, JsonRecord(i, segment))
                /\ pc' = "pull"
                /\ UNCHANGED <<fs, pending, exc, written>>
           ELSE IF file_handle # {}
           THEN LET h == CHOOSE x \in file_handle : TRUE
                    pieces == SegmentPieces(req.output_format, i, segment)
                IN  /\ fs' = WriteTo(fs, h, <<pieces[written + 1]>>)
                    /\ IF written + 1 = Len(pieces)
                       THEN written' = 0 /\ pc' = "pull"
                       ELSE written' = written + 1 /\ pc' = "write"
                    /\ UNCHANGED <<json_results, pending, exc>>
           ELSE /\ pc' = "pull"
                /\ UNCHANGED <<json_results, fs, pending, exc, written>>
    /\ UNCHANGED <<model, req, cancel_flag, engine_call, yielded, exhausted, cur,
                   polls, output_path, file_handle, open_files, opened, fs0,
                   log, outcome, more, set_at, envvars>>

\* Lines 146-174: the segment is buffered (json) or written (the others),
\* one step for each call of file_handle.write; a write may raise, leaving
\* the pieces written before it in the file.
WriteSegment ==
    /\ pc = "write"
    /\ LET i == cur[1].i
           segment == cur[1].segment
       IN  IF req.output_format = "json"
           THEN /\ json_results' = Append(json_results, JsonRecord(i, segment))
                /\ pc' = "pull"
                /\ UNCHANGED <<fs, pending, exc, written>>
           ELSE IF file_handle # {}
           THEN LET h == CHOOSE x \in file_handle : TRUE
                    pieces == SegmentPieces(req.output_format, i, segment)
                IN  \/ /\ fs' = WriteTo(fs, h, <<pieces[written + 1]>>)
                       /\ IF written + 1 = Len(pieces)
                          THEN written' = 0 /\ pc' = "pull"
                          ELSE written' = written + 1 /\ pc' = "write"
                       /\ UNCHANGED <<json_results, pending, exc>>
                    \/ /\ Fail("IOError")
                       /\ UNCHANGED <<json_results, fs, written>>
           ELSE /\ pc' = "pull"
                /\ UNCHANGED <<json_results, fs, pending, exc, written>>
    /\ UNCHANGED <<model, req, cancel_flag, engine_call, yielded, exhausted, cur,
                   polls, output_path, file_handle, open_files, opened, fs0,
                   log, outcome, more, set_at, envvars>>

----------------------------------------------------------------------------
\* After the loop, lines 176-194

\* Line 178: json opens the destination once the sequence is exhausted.
JsonOpen ==
    /\ pc = "json_open"
    /\ LET p == output_path[1]
       IN  \/ /\ fs' = OpenForWriting(fs, p)
              /\ open_files' = open_files \cup {p}
              /\ opened' = opened \cup {p}
              /\ pc' = "json_dump"
              /\ UNCHANGED <<pending, exc>>
           \/ /\ Fail("IOError")
              /\ UNCHANGED <<fs, open_files, opened>>
    /\ UNCHANGED <<model, req, cancel_flag, engine_call, yielded, exhausted, cur,
                   polls,
                   output_path, file_handle, json_results, fs0, log, outcome,
                   more, written, set_at, envvars>>

\* Line 179 and the end of the with block: the document is written, or the
\* write raises; the with block closes the file either way.
JsonDump ==
    /\ pc = "json_dump"
    /\ LET p == output_path[1]
       IN  /\ \/ /\ fs' = WriteTo(fs, p, <<[kind |-> "json",
                                            doc |-> json_results]>>)
                 /\ pc' = "finally"
                 /\ UNCHANGED <<pending, exc>>
              \/ /\ Fail("IOError")
                 /\ UNCHANGED fs
           /\ open_files' = open_files \ {p}
    /\ UNCHANGED <<model, req, cancel_flag, engine_call, yielded, exhausted, cur,
                   polls,
                   output_path, file_handle, opened, json_results, fs0, log,
                   outcome,
                   more, written, set_at, envvars>>

\* A plausible slip: the handle not closed when the try block is left by an
\* exception or a return.
CloseHandleOnSuccessOnly(open, handle, how) ==
    IF how = "none" THEN open \ handle ELSE open

\* Lines 182-183: if file_handle: file_handle.close()
CloseHandle(open, handle, how) == open \ handle

\* A plausible slip: the cancellation leaves the loop (a break) instead of
\* returning, so run() goes on to its last lines.
FinallyAfterBreak ==
    /\ pc = "finally"
    /\ open_files' = CloseHandle(open_files, file_handle, pending)
    /\ IF pending = "raise"
       THEN /\ pc' = "raised"
            /\ outcome' = [kind |-> "raise", path |-> <<>>, exc |-> exc]
       ELSE /\ pc' = "end"
            /\ UNCHANGED outcome
    /\ UNCHANGED <<model, req, cancel_flag, engine_call, yielded, exhausted,
                   cur, polls, output_path, file_handle, opened, json_results,
                   fs, fs0, log, pending, exc,
                   more, written, set_at, envvars>>

\* Lines 181-183: the finally clause, then what left the try block goes on:
\* the exception propagates, None is returned (line 135), or run() goes on
\* to its last lines.
Finally ==
    /\ pc = "finally"
    /\ open_files' = CloseHandle(open_files, file_handle, pending)
    /\ IF pending = "raise"
       THEN /\ pc' = "raised"
            /\ outcome' = [kind |-> "raise", path |-> <<>>, exc |-> exc]
       ELSE IF pending = "return"
       THEN /\ pc' = "returned"
            /\ outcome' = [kind |-> "None", path |-> <<>>, exc |-> ""]
       ELSE /\ pc' = "end"
            /\ UNCHANGED outcome
    /\ UNCHANGED <<model, req, cancel_flag, engine_call, yielded, exhausted,
                   cur, polls, output_path, file_handle, opened, json_results,
                   fs, fs0, log, pending, exc,
                   more, written, set_at, envvars>>

\* Lines 186-194: the end-of-run log lines, and the path is returned.
EndRun ==
    /\ pc = "end"
    /\ log' = log \o <<Line("separator"), Line("end_time"), Line("duration"),
                       [kind |-> "saved", path |-> output_path[1]]>>
    /\ pc' = "returned"
    /\ outcome' = [kind |-> "path", path |-> output_path, exc |-> ""]
    /\ UNCHANGED <<model, req, cancel_flag, engine_call, yielded, exhausted, cur,
                   polls,
                   output_path, file_handle, open_files, opened, json_results,
                   fs, fs0, pending, exc,
                   more, written, set_at, envvars>>

\* The caller that gave a callback sets the flag the callback reads
\* (App.cancel_task, line 461), at any moment until run() is over.  set_at keeps where the run was then:
\* the segments pulled, the polls made, the write calls of the record under
\* way.
SetCancel ==
    /\ pc \notin {"returned", "raised"}
    /\ req.cancel_cb
    /\ cancel_flag = FALSE
    /\ cancel_flag' = TRUE
    /\ set_at' = <<[pulled |-> Len(yielded), polled |-> Len(polls),
                    written |-> written]>>
    /\ UNCHANGED <<model, pc, req, engine_call, yielded, exhausted, cur, polls,
                   output_path, file_handle, open_files, opened, json_results,
                   fs, fs0, log, pending, exc, outcome,
                   more, written, envvars>>

Next ==
    \/ LoadModel
    \/ BeginRun
    \/ Transcribe
    \/ Resolve
    \/ OpenOutput
    \/ PullSegment
    \/ PullStop
    \/ PullRaise
    \/ Poll
    \/ LogSegment
    \/ WriteSegment
    \/ JsonOpen
    \/ JsonDump
    \/ Finally
    \/ EndRun
    \/ SetCancel

Spec == Init /\ [][Next]_vars

----------------------------------------------------------------------------
\* Two runs at once on the same source file, task and output format (two
\* instances, two threads).  The second run is the same code; of it the
\* model keeps what the file system sees: its path resolution, its open, its
\* writes (one segment) and its close.  Pieces are kept in the order they
\* are written, whichever handle writes them.

\* The requests of the two runs: a streaming format or the buffered one, no
\* prompt, no cancellation callback.
RaceRequests ==
    {r \in Requests : /\ r.output_format \in {"srt", "json"}
                      /\ r.task = "transcribe"
                      /\ r.initial_prompt = ""
                      /\ ~r.cancel_cb}

InitRace ==
    /\ \E r \in RaceRequests : InitRun(r)
    /\ ts_in = [seconds |-> Time(0, 0), separator |-> ","]
    /\ ts_out = <<>>
    /\ InitApp
    /\ o_pc = "resolve"
    /\ o_path = <<>>
    /\ o_fs0 = {}
    /\ InitInstance

\* Lines 98-112 in the second run.
OtherResolve ==
    /\ o_pc = "resolve"
    /\ o_path' = <<ResolveOutputPath(DOMAIN fs, req.file_path,
                                     req.output_format, req.task)>>
    /\ o_fs0' = DOMAIN fs
    /\ o_pc' = "open"
    /\ UNCHANGED <<runvars, tsvars, appvars, instvars>>

\* Line 121 with the header (124-127), or line 178 for json, in the second
\* run: the file is created, or truncated when it exists.
OtherOpen ==
    /\ o_pc = "open"
    /\ LET p == o_path[1]
       IN  fs' = WriteTo(OpenForWriting(fs, p), p,
                         IF req.output_format = "json" THEN <<>>
                         ELSE Header(req.output_format))
    /\ o_pc' = "write"
    /\ UNCHANGED <<model, pc, req, cancel_flag, engine_call, yielded, exhausted,
                   cur, polls, output_path, file_handle, open_files, opened,
                   json_results, fs0, log, pending, exc, outcome, more,
                   written, set_at, tsvars, appvars, instvars, o_path,
                   o_fs0>>

\* Lines 154-174, or line 179 for json, in the second run: the record of
\* the segment that starts the audio, or the document holding it.
OtherWrite ==
    /\ o_pc = "write"
    /\ LET s == CHOOSE x \in SegPool : x.start = Time(0, 0)
       IN  fs' = WriteTo(fs, o_path[1],
                         IF req.output_format = "json"
                         THEN <<[kind |-> "json", doc |-> <<JsonRecord(0, s)>>]>>
                         ELSE SegmentPieces(req.output_format, 0, s))
    /\ o_pc' = "close"
    /\ UNCHANGED <<model, pc, req, cancel_flag, engine_call, yielded, exhausted,
                   cur, polls, output_path, file_handle, open_files, opened,
                   json_results, fs0, log, pending, exc, outcome, more,
                   written, set_at, tsvars, appvars, instvars, o_path,
                   o_fs0>>

\* Lines 181-183, or the end of the with block of line 178, in the second
\* run.
OtherClose ==
    /\ o_pc = "close"
    /\ o_pc' = "done"
    /\ UNCHANGED <<runvars, tsvars, appvars, instvars, o_path, o_fs0>>

NextRace ==
    \/ LoadModel
    \/ BeginRun
    \/ Transcribe
    \/ Resolve
    \/ OpenOutput
    \/ PullSegment
    \/ PullStop
    \/ PullRaise
    \/ Poll
    \/ LogSegment
    \/ WriteSegment
    \/ JsonOpen
    \/ JsonDump
    \/ Finally
    \/ EndRun
    \/ OtherResolve
    \/ OtherOpen
    \/ OtherWrite
    \/ OtherClose

SpecRace == InitRace /\ [][NextRace]_vars

----------------------------------------------------------------------------
\* The App around run(), lines 249-251 and 458-528.  The handlers of the two
\* buttons run on the UI thread; process_video runs on a worker thread.
\* cancel_task keeps the UI thread inside its modal askyesno dialog until
\* the user answers: no other handler starts meanwhile, while the worker goes
\* on.  The files present when a run starts are any the user left there.

\* What process_video passes to run(), lines 486-511: a prompt only when
\* transcribing, always a cancellation callback.
AppRequests ==
    {r \in Requests : /\ r.cancel_cb
                      /\ r.task = "translate" => r.initial_prompt = ""}

InitAppSpec ==
    /\ \E r \in AppRequests : InitRun(r) /\ fs = <<>>
    /\ ts_in = [seconds |-> Time(0, 0), separator |-> ","]
    /\ ts_out = <<>>
    /\ InitApp
    /\ InitOther
    /\ InitInstance

\* A plausible slip: start_thread without its `if self.is_running: return`.
StartThreadUnguarded ==
    /\ ui = "idle"
    /\ worker \in {"none", "run"}
    /\ is_running' = TRUE
    /\ cancel_flag' = FALSE
    /\ stale' = IF cancel_flag' THEN "kept"
                ELSE IF stale = "late" THEN "cleared" ELSE "none"
    /\ worker' = "begin"
    /\ workers' = workers + 1
    /\ UNCHANGED <<model, pc, req, engine_call, yielded, exhausted, cur, polls,
                   output_path, file_handle, open_files, opened, json_results,
                   fs, fs0, log, pending, exc, outcome, more, written,
                   set_at, ui, tsvars, othervars, instvars>>

\* A plausible slip: start_thread without `self.cancel_flag = False`.
StartThreadKeepsFlag ==
    /\ ui = "idle"
    /\ ~is_running
    /\ is_running' = TRUE
    /\ cancel_flag' = cancel_flag
    /\ stale' = IF cancel_flag' THEN "kept"
                ELSE IF stale = "late" THEN "cleared" ELSE "none"
    /\ worker' = "begin"
    /\ workers' = workers + 1
    /\ UNCHANGED <<model, pc, req, engine_call, yielded, exhausted, cur, polls,
                   output_path, file_handle, open_files, opened, json_results,
                   fs, fs0, log, pending, exc, outcome, more, written,
                   set_at, ui, tsvars, othervars, instvars>>

\* start_thread, lines 464-481, with a valid file chosen: nothing happens
\* while is_running; else is_running is set, the flag reset and the worker
\* thread started.  stale keeps what happens to a flag that a late
\* confirmation had set: "cleared" here, or "kept".
StartThread ==
    /\ ui = "idle"
    /\ ~is_running
    /\ is_running' = TRUE
    /\ cancel_flag' = FALSE
    /\ stale' = IF cancel_flag' THEN "kept"
                ELSE IF stale = "late" THEN "cleared" ELSE "none"
    /\ worker' = "begin"
    /\ workers' = workers + 1
    /\ UNCHANGED <<model, pc, req, engine_call, yielded, exhausted, cur, polls,
                   output_path, file_handle, open_files, opened, json_results,
                   fs, fs0, log, pending, exc, outcome, more, written,
                   set_at, ui, tsvars, othervars, instvars>>

\* No call of run() is under way: its locals are as before a call.
NoCall ==
    /\ pc' = "idle"
    /\ engine_call' = <<>>
    /\ yielded' = <<>>
    /\ exhausted' = FALSE
    /\ cur' = <<>>
    /\ polls' = <<>>
    /\ output_path' = <<>>
    /\ file_handle' = {}
    /\ open_files' = {}
    /\ opened' = {}
    /\ json_results' = <<>>
    /\ fs0' = {}
    /\ log' = <<>>
    /\ pending' = "none"
    /\ exc' = ""
    /\ outcome' = NoOutcome
    /\ more' = FALSE
    /\ written' = 0

\* process_video, lines 484-503: the worker reads the settings, makes a new
\* SubtitleTranscriber and calls run() with the callback that reads the flag.
WorkerCall ==
    /\ worker = "begin"
    /\ worker' = "run"
    /\ \E r \in AppRequests :
          /\ req' = r
          /\ fs' \in InitialFileSystems(r)
    /\ model' = "None"
    /\ NoCall
    /\ UNCHANGED <<cancel_flag, set_at, is_running, ui, workers, stale, tsvars,
                   othervars, instvars>>

\* process_video, lines 513-528: run() has returned or raised; the result is
\* shown and the finally clause clears is_running as the worker ends.  The
\* frame of run() is gone; the files it leaves are the user's from here on.
WorkerFinish ==
    /\ worker = "run"
    /\ pc \in {"returned", "raised"}
    /\ is_running' = FALSE
    /\ worker' = "none"
    /\ workers' = workers - 1
    /\ NoCall
    /\ fs' = <<>>
    /\ UNCHANGED <<model, req, cancel_flag, set_at, ui, stale, tsvars,
                   othervars, instvars>>

\* cancel_task, lines 458-460: with a task running the confirmation dialog
\* opens; otherwise nothing happens.
CancelAsk ==
    /\ ui = "idle"
    /\ is_running
    /\ ui' = "asking"
    /\ UNCHANGED <<runvars, is_running, worker, workers, stale, tsvars,
                   othervars, instvars>>

\* cancel_task, lines 460-462: the user answers; on yes the flag is set.
\* stale becomes "late" when the run the question was about has ended.
CancelAnswer ==
    /\ ui = "asking"
    /\ ui' = "idle"
    /\ \E yes \in BOOLEAN :
          /\ cancel_flag' = IF yes THEN TRUE ELSE cancel_flag
          /\ stale' = IF /\ yes
                         /\ \/ worker = "none"
                            \/ worker = "run" /\ pc \in {"returned", "raised"}
                      THEN "late" ELSE stale
    /\ UNCHANGED <<model, pc, req, engine_call, yielded, exhausted, cur, polls,
                   output_path, file_handle, open_files, opened, json_results,
                   fs, fs0, log, pending, exc, outcome, more, written,
                   set_at, is_running, worker, workers, tsvars, othervars, instvars>>

NextApp ==
    \/ StartThread
    \/ WorkerCall
    \/ WorkerFinish
    \/ CancelAsk
    \/ CancelAnswer
    \/ worker = "run" /\ LoadModel
    \/ worker = "run" /\ BeginRun
    \/ worker = "run" /\ Transcribe
    \/ worker = "run" /\ Resolve
    \/ worker = "run" /\ OpenOutput
    \/ worker = "run" /\ PullSegment
    \/ worker = "run" /\ PullStop
    \/ worker = "run" /\ PullRaise
    \/ worker = "run" /\ Poll
    \/ worker = "run" /\ LogSegment
    \/ worker = "run" /\ WriteSegment
    \/ worker = "run" /\ JsonOpen
    \/ worker = "run" /\ JsonDump
    \/ worker = "run" /\ Finally
    \/ worker = "run" /\ EndRun

SpecApp == InitAppSpec /\ [][NextApp]_vars

----------------------------------------------------------------------------
\* One SubtitleTranscriber whose run() is called again and again, each call
\* after the one before has returned or raised.  self.model is the only
\* state a call leaves on the instance.  Each call meets its own files: the
\* base path of its request may be taken, by an earlier output or otherwise.

\* The calls made: a subtitle format or json, with a cancellation callback.
RunsRequests ==
    {r \in Requests : /\ r.output_format \in {"srt", "json"}
                      /\ r.task = "transcribe"
                      /\ r.initial_prompt = ""
                      /\ r.cancel_cb}

\* The file systems a call may start in: the base path exists or not.
RunsFileSystems(r) ==
    {f \in InitialFileSystems(r) :
        DOMAIN f \subseteq {BaseOutputPath(r.file_path, r.output_format,
                                           r.task)}}

InitRuns ==
    /\ \E r \in RunsRequests : InitRun(r) /\ fs \in RunsFileSystems(r)
    /\ ts_in = [seconds |-> Time(0, 0), separator |-> ","]
    /\ ts_out = <<>>
    /\ InitApp
    /\ InitOther
    /\ InitInstance

\* load_model got as far as line 30 / line 34 / line 44 or 47 in the run
\* under way, as the log shows.
TriedInRun == \E k \in 1..Len(log) : log[k].kind = "loading"
LoadedInRun == \E k \in 1..Len(log) : log[k].kind = "loaded"
InitFailedInRun ==
    \E k \in 1..Len(log) : log[k].kind \in {"gpu_missing", "load_failed"}

\* The calls of load_model, among those of i, that ended as `how`.
Count(i, how) == Len(SelectSeq(i, LAMBDA x : x = how))

\* How the call that is over ended: "completed" with the path returned,
\* "cancelled" with None returned, "failed" with an exception raised.
RunEnding ==
    IF outcome.kind = "path" THEN "completed"
    ELSE IF outcome.kind = "None" THEN "cancelled" ELSE "failed"

\* The caller calls run() again on the same instance once the call before
\* is over, with the flag its callback reads cleared; it gives up when
\* MaxFailedInits initialisations have failed.
RunAgain ==
    /\ pc \in {"returned", "raised"}
    /\ InitFailedInRun => Count(inits, "failed") < MaxFailedInits
    /\ inits' = inits \o (IF LoadedInRun THEN <<"loaded">>
                          ELSE IF InitFailedInRun THEN <<"failed">> ELSE <<>>)
    /\ since' = IF Count(inits, "loaded") > 0 THEN since \cup {RunEnding}
                ELSE since
    /\ last_init_failed' = InitFailedInRun
    /\ \E r \in RunsRequests :
          /\ req' = r
          /\ fs' \in RunsFileSystems(r)
    /\ cancel_flag' = FALSE
    /\ set_at' = <<>>
    /\ NoCall
    /\ UNCHANGED <<model, tsvars, appvars, othervars>>

NextRuns ==
    \/ LoadModel
    \/ BeginRun
    \/ Transcribe
    \/ Resolve
    \/ OpenOutput
    \/ PullSegment
    \/ PullStop
    \/ PullRaise
    \/ Poll
    \/ LogSegment
    \/ WriteSegment
    \/ JsonOpen
    \/ JsonDump
    \/ Finally
    \/ EndRun
    \/ SetCancel
    \/ RunAgain

SpecRuns == InitRuns /\ [][NextRuns]_vars

----------------------------------------------------------------------------
\* format_timestamp on its own: one call on a sampled time.

IdleRequest ==
    [file_path |-> SourceFile, output_format |-> "srt", task |-> "transcribe",
     initial_prompt |-> "", cancel_cb |-> FALSE]

InitFormat ==
    /\ InitRun(IdleRequest)
    /\ ts_in \in [seconds : TimeSamples, separator : {",", "."}]
    /\ ts_out = <<>>
    /\ InitApp
    /\ InitOther
    /\ InitInstance

FormatCall ==
    /\ ts_out = <<>>
    /\ ts_out' = <<format_timestamp(ts_in.seconds, ts_in.separator)>>
    /\ UNCHANGED <<ts_in, runvars, appvars, othervars, instvars>>

NextFormat == FormatCall

SpecFormat == InitFormat /\ [][NextFormat]_vars

----------------------------------------------------------------------------
\* Properties

\* Some poll of cancel_check_callback has returned true.
Cancelled == \E k \in 1..Len(polls) : polls[k]

\* The poll that first returned true.
FirstTrue == CHOOSE k \in 1..Len(polls) : polls[k] /\ \A j \in 1..(k - 1) : ~polls[j]

\* The complete segment records in a file: each ends with its text.
SegmentRecords(content) ==
    Cardinality({k \in 1..Len(content) : content[k].kind \in {"text", "row"}})

IsStreaming == req.output_format \in {"srt", "vtt", "txt", "tsv"}

CancellationOutcome == [kind |-> "None", path |-> <<>>, exc |-> ""]

\* C1: if the cancellation poll first returns true at the poll that precedes
\* the k-th segment, the run leaves the loop at once and returns the
\* cancellation outcome (None, no path); a streaming format then holds
\* exactly k-1 segment records in the output file, and json has emitted no
\* record: no file was opened and none is at the output path.
C1_CancelBeforeKth ==
    Cancelled =>
        LET k == FirstTrue
            p == output_path[1]
        IN  /\ Len(polls) = k
            /\ Len(yielded) = k
            /\ pc \in {"finally", "returned"}
            /\ pc = "returned" => outcome = CancellationOutcome
            /\ IsStreaming => SegmentRecords(fs[p]) = k - 1
            /\ req.output_format = "json" =>
                  /\ opened = {}
                  /\ p \notin DOMAIN fs

\* C1 witness: an srt run cancelled at the poll before its 3rd segment has
\* returned.
C1_Witness ==
    /\ pc = "returned"
    /\ Cancelled
    /\ FirstTrue = 3
    /\ req.output_format = "srt"
    /\ SegmentRecords(fs[output_path[1]]) = 2

\* C2: with task=translate and a non-empty initial_prompt, every call of the
\* engine's transcribe is made without an initial_prompt option.
C2_PromptSuppressed ==
    (req.task = "translate" /\ req.initial_prompt # "") =>
        \A k \in 1..Len(engine_call) : engine_call[k].initial_prompt = <<>>

\* The candidate paths of the request, as the specification names them:
\* <stem><suffix>.<ext> for 0, <stem><suffix>_n.<ext> for n >= 1.
Candidate(n) ==
    [stem |-> "video",
     suffix |-> IF req.task = "translate" THEN ".en" ELSE "",
     num |-> n, ext |-> req.output_format]

\* C3: the resolved output path is the first candidate, in the order base,
\* _1, _2, ..., that did not exist when the path was resolved; it is the only
\* path the run ever opens for writing, and every file that existed at that
\* time keeps its content.
C3_FirstFreePath ==
    /\ output_path = <<>> => opened = {}
    /\ output_path # <<>> =>
          LET p == output_path[1]
          IN  /\ p = Candidate(p.num)
              /\ p \notin fs0
              /\ \A n \in 0..(p.num - 1) : Candidate(n) \in fs0
              /\ opened \subseteq {p}
              /\ \A q \in fs0 : q \in DOMAIN fs /\ fs[q] = OldContent

\* C3 witness: a translate run whose base path and _1 path existed has
\* written to the _2 path and returned it.
C3_Witness ==
    /\ pc = "returned"
    /\ outcome.kind = "path"
    /\ req.task = "translate"
    /\ outcome.path = <<Candidate(2)>>
    /\ Candidate(2) \in opened
    /\ {Candidate(0), Candidate(1)} \subseteq fs0

\* run() is over: it has returned or raised.
Over == pc \in {"returned", "raised"}

\* C4: when run() is over, however it ended (completion, cancellation, an
\* engine failure during the iteration, a failure to open or to write),
\* it holds no open file: every destination it opened has been closed.
C4_ClosedOnEveryExit == Over => open_files = {}

\* C4 witness: a run that had opened its destination has raised the I/O
\* failure of a write, after at least one segment.
C4_Witness ==
    /\ pc = "raised"
    /\ exc = "IOError"
    /\ opened # {}
    /\ Len(yielded) >= 1

\* The pieces of one kind in a file, in order.
Pieces(content, kind) == SelectSeq(content, LAMBDA x : x.kind = kind)

\* The segments that passed their poll: the polls that returned false.
Accepted == Cardinality({k \in 1..Len(polls) : ~polls[k]})

\* C5: in srt the cue numbers written are 1, 2, ..., m in order, the cue of
\* the n-th accepted segment (n from 0) being n+1 and carrying that
\* segment's text; in json the ids buffered, and written, are 0, 1, ..., m-1
\* in order, the record of the n-th accepted segment having id n.  m is the
\* number of accepted segments, less the one still being processed.
C5_CueAndIdNumbering ==
    /\ (req.output_format = "srt" /\ opened # {}) =>
          LET c == fs[output_path[1]]
              cues == Pieces(c, "cue")
              texts == Pieces(c, "text")
          IN  /\ \A j \in 1..Len(cues) : cues[j].num = j
              /\ \A j \in 1..Len(texts) : texts[j].text = Strip(yielded[j].text)
              /\ Len(texts) <= Len(cues)
              /\ Len(cues) \in {Accepted - 1, Accepted}
              /\ pc = "pull" => Len(texts) = Accepted
    /\ req.output_format = "json" =>
          /\ \A j \in 1..Len(json_results) :
                /\ json_results[j].id = j - 1
                /\ json_results[j].text = Strip(yielded[j].text)
          /\ Len(json_results) \in {Accepted - 1, Accepted}
          /\ pc = "pull" => Len(json_results) = Accepted
          /\ \A q \in opened : \A k \in 1..Len(fs[q]) :
                fs[q][k].doc = json_results

\* C5 witness: an srt run has returned after writing three or more cues.
C5_Witness ==
    /\ pc = "returned"
    /\ req.output_format = "srt"
    /\ outcome.kind = "path"
    /\ Len(Pieces(fs[output_path[1]], "cue")) >= 3

\* What the format table gives: the header lines, and the writes per record.
HeaderLines(output_format) ==
    IF output_format = "vtt" THEN <<"WEBVTT">>
    ELSE IF output_format = "tsv" THEN <<"start end text">> ELSE <<>>

WritesPerRecord(output_format) ==
    IF output_format = "srt" THEN 3 ELSE IF output_format = "vtt" THEN 2 ELSE 1

\* C6: from the moment cancellation is observed, a streaming output file is
\* the header (if the format has one), the complete records of the k-1
\* segments accepted before, in engine order, and the interruption marker,
\* once, as the last thing in the file; a cancelled json run has no file at
\* the output path.
C6_MarkerIsLast ==
    Cancelled =>
        LET k == FirstTrue
            p == output_path[1]
        IN  /\ IsStreaming =>
                  LET c == fs[p]
                      h == HeaderLines(req.output_format)
                      w == WritesPerRecord(req.output_format)
                      last == IF req.output_format = "tsv" THEN "row" ELSE "text"
                  IN  /\ Len(c) = Len(h) + (k - 1) * w + 1
                      /\ \A j \in 1..Len(h) :
                            c[j].kind = "header" /\ c[j].line = h[j]
                      /\ \A j \in 1..(k - 1) :
                            /\ c[Len(h) + j * w].kind = last
                            /\ c[Len(h) + j * w].text = Strip(yielded[j].text)
                      /\ c[Len(c)].kind = "marker"
                      /\ Len(Pieces(c, "marker")) = 1
            /\ req.output_format = "json" => p \notin DOMAIN fs

\* C6 witness: a vtt run cancelled before its 2nd segment has returned.
C6_Witness ==
    /\ pc = "returned"
    /\ Cancelled
    /\ FirstTrue = 2
    /\ req.output_format = "vtt"
    /\ outcome = CancellationOutcome

\* The engine raised while the segment sequence was being consumed (the
\* path is resolved by then; a failure of transcribe() itself comes before).
EngineRaisedInLoop == exc = "EngineError" /\ output_path # <<>>

EngineFailure == [kind |-> "raise", path |-> <<>>, exc |-> "EngineError"]

\* The end-of-run log events emitted so far.
EndEvents == Pieces(log, "saved")

\* C7: once the engine has raised during the iteration, run() only runs its
\* finally clause and raises that same failure; no interruption marker is
\* written and no cancellation or end-of-run line logged; a streaming file
\* keeps the header and the complete records of all segments yielded before
\* the failure; for json no file is opened or created at the output path.
C7_EngineFailurePropagates ==
    EngineRaisedInLoop =>
        LET p == output_path[1]
        IN  /\ pc \in {"finally", "raised"}
            /\ pc = "raised" => outcome = EngineFailure
            /\ EndEvents = <<>>
            /\ Pieces(log, "cancelled") = <<>>
            /\ IsStreaming =>
                  LET c == fs[p]
                      h == HeaderLines(req.output_format)
                      w == WritesPerRecord(req.output_format)
                  IN  /\ Pieces(c, "marker") = <<>>
                      /\ Len(c) = Len(h) + Len(yielded) * w
                      /\ SegmentRecords(c) = Len(yielded)
                      /\ \A j \in 1..Len(yielded) :
                            c[Len(h) + j * w].text = Strip(yielded[j].text)
            /\ req.output_format = "json" =>
                  /\ opened = {}
                  /\ p \notin DOMAIN fs

\* C7 witness: a tsv run has raised the engine's failure after two segments
\* were written.
C7_Witness ==
    /\ pc = "raised"
    /\ EngineRaisedInLoop
    /\ outcome = EngineFailure
    /\ req.output_format = "tsv"
    /\ SegmentRecords(fs[output_path[1]]) = 2

\* C8: if the initialisation of the engine fails, run() raises at once:
\* transcribe has not been called, no output path has been resolved, no file
\* has been opened or created, and the instance still has no engine.
C8_InitFailureAborts ==
    exc \in {"RuntimeError", "LoadError"} =>
        /\ pc = "raised"
        /\ outcome = [kind |-> "raise", path |-> <<>>, exc |-> exc]
        /\ engine_call = <<>>
        /\ output_path = <<>>
        /\ opened = {}
        /\ open_files = {}
        /\ \A q \in DOMAIN fs : fs[q] = OldContent
        /\ model = "None"

\* C8 witness: run() has raised the failure of a missing GPU library.
C8_Witness ==
    /\ pc = "raised"
    /\ exc = "RuntimeError"
    /\ Pieces(log, "gpu_missing") # <<>>

\* C9: when run() is over it has returned the resolved output path exactly
\* if the sequence was exhausted, no poll returned true and nothing failed;
\* the end-of-run event is logged once in that case and never otherwise, and
\* when it is logged the output is final: no file is open, a streaming
\* destination has been opened and closed, the json document is in the file.
C9_PathIffCompleted ==
    /\ Over => (outcome.kind = "path" <=> (exhausted /\ ~Cancelled /\ exc = ""))
    /\ outcome.kind = "path" => (pc = "returned" /\ outcome.path = output_path)
    /\ Len(EndEvents) = IF outcome.kind = "path" THEN 1 ELSE 0
    /\ (Cancelled \/ exc # "") => EndEvents = <<>>
    /\ EndEvents # <<>> =>
          LET p == output_path[1]
          IN  /\ log[Len(log)] = [kind |-> "saved", path |-> p]
              /\ open_files = {}
              /\ opened = {p}
              /\ req.output_format = "json" =>
                    fs[p] = <<[kind |-> "json", doc |-> json_results]>>

\* C9 witness: a json run has returned its path with two or more records.
C9_Witness ==
    /\ pc = "returned"
    /\ outcome.kind = "path"
    /\ req.output_format = "json"
    /\ Len(json_results) >= 2
    /\ Len(EndEvents) = 1

RECURSIVE DigitsValue(_)
\* The number a sequence of decimal digits writes.
DigitsValue(d) ==
    IF d = <<>> THEN 0 ELSE DigitsValue(SubSeq(d, 1, Len(d) - 1)) * 10 + d[Len(d)]

IsDigits(d) == \A k \in 1..Len(d) : d[k] \in 0..9

\* C10: for a time of s whole seconds and us microseconds, format_timestamp
\* returns HH:MM:SS<sep>mmm with HH = s div 3600 in two digits or more (no
\* wrap at 24), MM and SS two digits in 00..59 with HH:MM:SS adding up to s,
\* and mmm three digits, the milliseconds of us truncated, not rounded;
\* 3661.2505 seconds with "," gives 01:01:01,250.
C10_TimestampLayout ==
    ts_out # <<>> =>
        LET t == ts_in.seconds
            r == ts_out[1]
            hh == DigitsValue(r.hh)
            mm == DigitsValue(r.mm)
            ss == DigitsValue(r.ss)
            mmm == DigitsValue(r.mmm)
        IN  /\ IsDigits(r.hh) /\ IsDigits(r.mm) /\ IsDigits(r.ss) /\ IsDigits(r.mmm)
            /\ Len(r.hh) >= 2
            /\ Len(r.hh) > 2 => r.hh[1] # 0
            /\ Len(r.mm) = 2 /\ Len(r.ss) = 2 /\ Len(r.mmm) = 3
            /\ hh = t.s \div 3600
            /\ mm \in 0..59 /\ ss \in 0..59
            /\ hh * 3600 + mm * 60 + ss = t.s
            /\ mmm * 1000 <= t.us /\ t.us < mmm * 1000 + 1000
            /\ r.sep = ts_in.separator
            /\ (t = Time(3661, 250500) /\ ts_in.separator = ",") =>
                  r = [hh |-> <<0, 1>>, mm |-> <<0, 1>>, ss |-> <<0, 1>>,
                       sep |-> ",", mmm |-> <<2, 5, 0>>]

\* C10 witness: 3661.2505 seconds has been formatted with "," as
\* 01:01:01,250.
C10_Witness ==
    /\ ts_in = [seconds |-> Time(3661, 250500), separator |-> ","]
    /\ ts_out = <<[hh |-> <<0, 1>>, mm |-> <<0, 1>>, ss |-> <<0, 1>>,
                   sep |-> ",", mmm |-> <<2, 5, 0>>]>>

\* ms is the time t, in milliseconds, truncated toward zero.
TruncatedMillis(ms, t) ==
    LET k == ms - t.s * 1000
    IN  k \in 0..999 /\ k * 1000 <= t.us /\ t.us < k * 1000 + 1000

\* C11: in tsv the start and end fields of the row of a segment are its start
\* and end in milliseconds, seconds x 1000 truncated toward zero and never
\* rounded; a segment from 1.2345 s to 2.0 s gives 1234 and 2000.
C11_TsvMillisTruncated ==
    (req.output_format = "tsv" /\ opened # {}) =>
        LET rows == Pieces(fs[output_path[1]], "row")
        IN  \A j \in 1..Len(rows) :
                LET seg == yielded[j]
                IN  /\ TruncatedMillis(rows[j].start_ms, seg.start)
                    /\ TruncatedMillis(rows[j].end_ms, seg.end)
                    /\ (seg.start = Time(1, 234500) /\ seg.end = Time(2, 0)) =>
                          (rows[j].start_ms = 1234 /\ rows[j].end_ms = 2000)

\* C11 witness: the row of a segment from 1.2345 s to 2.0 s is in the tsv
\* file with the fields 1234 and 2000.
C11_Witness ==
    /\ req.output_format = "tsv"
    /\ opened # {}
    /\ \E j \in 1..Len(yielded) :
          /\ yielded[j].start = Time(1, 234500)
          /\ yielded[j].end = Time(2, 0)
          /\ LET rows == Pieces(fs[output_path[1]], "row")
             IN  /\ j <= Len(rows)
                 /\ rows[j].start_ms = 1234
                 /\ rows[j].end_ms = 2000

\* The pieces of segment records in a file, whole or not.
RecordPieces(content) ==
    SelectSeq(content, LAMBDA x : x.kind \in {"cue", "times", "text", "row"})

\* The segment records kept so far: buffered for json, whole in the file for
\* the streaming formats.
RecordsKept ==
    IF req.output_format = "json" THEN Len(json_results)
    ELSE IF opened = {} THEN 0
    ELSE SegmentRecords(fs[output_path[1]])

\* The segment whose poll returned false is still being logged or written.
InHand == IF pc \in {"log", "write"} THEN 1 ELSE 0

\* C12: the cancellation callback is read once for each segment delivered,
\* before that segment's log line and record; a segment whose poll returned
\* false gets its whole record, whenever the flag becomes true afterwards:
\* part of a record is in the file only while run() is between the write
\* calls of that record, or after a write call itself has failed, never
\* because of a cancellation.
C12_PollOncePerSegment ==
    /\ Len(polls) = IF pc = "poll" THEN Len(yielded) - 1 ELSE Len(yielded)
    /\ Len(Pieces(log, "segment")) = Accepted - (IF pc = "log" THEN 1 ELSE 0)
    /\ RecordsKept <= Accepted
    /\ written > 0 => (pc = "write" \/ exc = "IOError")
    /\ Cancelled => written = 0
    /\ (IsStreaming /\ opened # {}) =>
          LET content == fs[output_path[1]]
          IN  Len(RecordPieces(content)) =
                 SegmentRecords(content) * WritesPerRecord(req.output_format)
                 + written
    /\ (exc # "IOError" /\ (IsStreaming => opened # {})) =>
          RecordsKept = Accepted - InHand

\* C12 witness: in an srt run the flag became true between the write calls
\* of the first record; that record is whole in the file and the run was
\* cancelled at the poll of the second segment.
C12_Witness ==
    /\ req.output_format = "srt"
    /\ set_at # <<>>
    /\ set_at[1].pulled = 1
    /\ set_at[1].written \in {1, 2}
    /\ pc = "returned"
    /\ Cancelled
    /\ FirstTrue = 2
    /\ Len(RecordPieces(fs[output_path[1]])) = 3
    /\ SegmentRecords(fs[output_path[1]]) = 1

\* The segment log lines emitted so far.
SegmentLines == Pieces(log, "segment")

\* The texts of the whole records kept so far, in the order kept.
RecordTexts ==
    IF req.output_format = "json"
    THEN [j \in 1..Len(json_results) |-> json_results[j].text]
    ELSE IF opened = {} THEN <<>>
    ELSE LET done == SelectSeq(fs[output_path[1]],
                               LAMBDA x : x.kind \in {"text", "row"})
         IN  [j \in 1..Len(done) |-> done[j].text]

\* C13: at every point of a run the segment log lines emitted and the
\* segment records written (buffered, for json) are both prefixes, in engine
\* order, of the sequence the engine has yielded; the log line of a segment
\* comes before its record, so records <= log lines <= records + 1.
C13_LogAndRecordsArePrefixes ==
    /\ Len(SegmentLines) <= Len(yielded)
    /\ \A j \in 1..Len(SegmentLines) :
          /\ SegmentLines[j].text = Strip(yielded[j].text)
          /\ SegmentLines[j].ts = format_timestamp(yielded[j].start, ",")
    /\ Len(RecordTexts) <= Len(SegmentLines)
    /\ Len(SegmentLines) <= Len(RecordTexts) + 1
    /\ \A j \in 1..Len(RecordTexts) : RecordTexts[j] = Strip(yielded[j].text)

\* C13 witness: the second of two different segments has its log line and
\* not yet its record, the first has both.
C13_Witness ==
    /\ pc = "write"
    /\ written = 0
    /\ Len(yielded) = 2
    /\ yielded[1] # yielded[2]
    /\ Len(SegmentLines) = 2
    /\ Len(RecordTexts) = 1

\* C14: when the cancellation is observed the run has pulled exactly one
\* segment more than it has logged and written (buffered, for json): the
\* segment delivered just before that poll is dropped, neither logged nor
\* written, and no segment is pulled after that poll.
C14_OnePulledAndDropped ==
    Cancelled =>
        LET k == FirstTrue
        IN  /\ Len(yielded) = k
            /\ Len(polls) = k
            /\ cur = <<[i |-> k - 1, segment |-> yielded[k]]>>
            /\ Len(SegmentLines) = k - 1
            /\ RecordsKept = k - 1
            /\ Len(RecordTexts) = k - 1
            /\ written = 0
            /\ pc \notin {"pull", "poll", "log", "write"}

\* C14 witness: a json run was cancelled at the poll of its second segment:
\* two segments pulled, one logged and buffered.
C14_Witness ==
    /\ Cancelled
    /\ req.output_format = "json"
    /\ Len(yielded) = 2
    /\ Len(SegmentLines) = 1
    /\ Len(json_results) = 1
    /\ pc = "returned"

\* The engine has returned its sequence and every segment of it has been
\* pulled: yielded is the whole sequence.
AllDelivered == Len(Pieces(log, "language")) = 1 /\ ~more

\* The flag became true only after the engine had delivered its last
\* segment, or in a run whose engine sequence is empty.
FlagAfterLastSegment ==
    /\ set_at # <<>>
    /\ AllDelivered
    /\ set_at[1].pulled = Len(yielded)

\* The flag became true only after the poll of the engine's last segment, or
\* in a run whose engine sequence is empty.
FlagAfterLastPoll ==
    /\ set_at # <<>>
    /\ AllDelivered
    /\ set_at[1].polled = Len(yielded)

\* The run has ended with the success outcome: it returned its output path
\* and emitted the end-of-run event.
Succeeded ==
    /\ pc = "returned"
    /\ outcome = [kind |-> "path", path |-> output_path, exc |-> ""]
    /\ Len(EndEvents) = 1

\* C15 as stated: a flag that becomes true only after the engine has
\* delivered its last segment, or during a run whose sequence is empty, is
\* never observed, and the run, once over without a failure, has succeeded.
C15_FlagAfterLastSegmentUnseen ==
    FlagAfterLastSegment =>
        /\ ~Cancelled
        /\ (Over /\ exc = "") => Succeeded

\* C15, amended: a flag that becomes true only after the poll that follows
\* the delivery of the engine's last segment, or during a run whose sequence
\* is empty, is never observed: no poll returns true, and the run, once over
\* without a failure, has returned its path and emitted the end-of-run
\* event.
C15_FlagAfterLastPollUnseen ==
    FlagAfterLastPoll =>
        /\ ~Cancelled
        /\ (Over /\ exc = "") => Succeeded

\* C15 witness: with a callback given, the flag became true after the poll
\* of the second and last segment, and the run has succeeded.
C15_Witness ==
    /\ req.cancel_cb
    /\ cancel_flag
    /\ FlagAfterLastPoll
    /\ Len(yielded) = 2
    /\ Succeeded

\* The loop has been reached: a segment was pulled, or is about to be.
LoopReached == pc = "pull" \/ yielded # <<>> \/ exhausted

\* The file starts with the header of the format.
StartsWithHeader(content, output_format) ==
    LET h == HeaderLines(output_format)
    IN  /\ Len(content) >= Len(h)
        /\ \A k \in 1..Len(h) : content[k] = [kind |-> "header", line |-> h[k]]

\* What C20 says of each state of a run.
PathAndOpenInOrder ==
    /\ output_path # <<>> =>
          /\ Len(engine_call) = 1
          /\ Len(Pieces(log, "language")) = 1
          /\ fs0 \subseteq DOMAIN fs
    /\ LoopReached => output_path # <<>>
    /\ (LoopReached /\ IsStreaming) =>
          /\ opened = {output_path[1]}
          /\ StartsWithHeader(fs[output_path[1]], req.output_format)
    /\ (req.output_format = "json" /\ opened # {}) =>
          /\ exhausted
          /\ ~more
          /\ Len(json_results) = Len(yielded)

\* C20: in every run the output path is resolved once, after the engine
\* call has returned and before the first segment is pulled, and never
\* again; for srt, vtt, txt and tsv the destination is open and its header
\* written before the first segment is pulled; for json no file is opened
\* until the segment sequence is exhausted.
C20_ResolveAndOpenBeforeLoop ==
    /\ []PathAndOpenInOrder
    /\ [][output_path # <<>> => output_path' = output_path]_vars

\* C20 witness: a vtt run is about to pull its first segment; its path is
\* resolved and the file holds the header and nothing else.
C20_Witness ==
    /\ req.output_format = "vtt"
    /\ pc = "pull"
    /\ yielded = <<>>
    /\ output_path # <<>>
    /\ opened = {output_path[1]}
    /\ fs[output_path[1]] = <<[kind |-> "header", line |-> "WEBVTT"]>>

\* Both runs have resolved their output path, and it is the same path.
SamePath == output_path # <<>> /\ o_path = output_path

\* C16: of two runs at once on the same source file, task and format, each
\* resolves a path that did not exist when it checked, and nothing ties the
\* check to the creation: the two resolve the same path exactly when neither
\* had created its file when the other checked; the records a run has
\* written are missing from its file only if the other run opened that same
\* path.  (That such an interleaving exists is what the witness shows.)
C16_RaceOnlyInTheWindow ==
    /\ output_path # <<>> => output_path[1] \notin fs0
    /\ o_path # <<>> => o_path[1] \notin o_fs0
    /\ (output_path # <<>> /\ o_path # <<>>) =>
          (SamePath <=> (output_path[1] \notin o_fs0 /\ o_path[1] \notin fs0))
    /\ (IsStreaming /\ opened # {} /\ exc # "IOError"
          /\ SegmentRecords(fs[output_path[1]]) < Accepted - InHand) =>
          (SamePath /\ o_pc \in {"write", "close", "done"})

\* C16 witness: both runs resolved the same path; the first wrote a record
\* into it, then the second opened it, and the record is gone.
C16_Witness ==
    /\ SamePath
    /\ req.output_format = "srt"
    /\ opened = {output_path[1]}
    /\ pc = "pull"
    /\ Accepted = 1
    /\ o_pc = "write"
    /\ fs[output_path[1]] = <<>>

\* The worker's call of run() is in flight: entered, not yet returned or
\* raised.
InFlight == worker = "run" /\ pc \notin {"returned", "raised"}

\* C17: while a run started by the App is in flight the flag only changes
\* from false to true: no step of run() writes it, and the only step that
\* makes it false is start_thread's, taken when is_running is false and no
\* run is in flight.
C17_FlagOnlyRaisedInFlight ==
    /\ [][InFlight => (cancel_flag => cancel_flag')]_vars
    /\ [][(cancel_flag /\ ~cancel_flag') =>
             (~InFlight /\ ~is_running /\ is_running' /\ worker = "none")]_vars

\* C17 witness: the flag was set while the run was logging its second
\* segment; the run is still in flight and the flag still true.
C17_Witness ==
    /\ InFlight
    /\ cancel_flag
    /\ pc = "write"
    /\ Len(yielded) = 2
    /\ polls = <<FALSE, FALSE>>

\* C18: at most one run is in flight in the App: a worker is alive exactly
\* while is_running is true, never two; start_thread starts a worker only
\* when is_running is false, and is_running becomes false only after the
\* worker's call of run() has returned or raised.
C18_AtMostOneRun ==
    /\ [](/\ workers = IF worker = "none" THEN 0 ELSE 1
          /\ is_running <=> workers = 1
          /\ InFlight => is_running)
    /\ [][workers' > workers => (~is_running /\ workers = 0)]_vars
    /\ [][(is_running /\ ~is_running') =>
             (worker = "run" /\ pc \in {"returned", "raised"})]_vars

\* C18 witness: a task was started and its cancellation confirmed; its run
\* is over, the worker has ended and is_running is false again.
C18_Witness ==
    /\ worker = "none"
    /\ ~is_running
    /\ workers = 0
    /\ cancel_flag
    /\ model = "WhisperModel"

\* C19: a cancellation asked for through cancel_task during one run never
\* cancels a later run: the step that starts a task leaves the flag false,
\* and a flag set true by a confirmation that came after its run had ended
\* is never kept by start_thread, so no later run polls it.
C19_NoCancelCarriedOver ==
    /\ [](stale # "kept")
    /\ []((stale = "late" /\ cancel_flag) => ~InFlight)
    /\ [][(~is_running /\ is_running') => ~cancel_flag']_vars

\* C19 witness: a confirmation came after its run had ended, start_thread
\* cleared the flag, and the next run has polled it twice as false.
C19_Witness ==
    /\ stale = "cleared"
    /\ InFlight
    /\ ~cancel_flag
    /\ polls = <<FALSE, FALSE>>

----------------------------------------------------------------------------
\* Runs on one instance (SpecRuns)

\* The successful initialisations so far, the run under way included.
Loads == Count(inits, "loaded") + (IF LoadedInRun THEN 1 ELSE 0)

\* C21: over any sequence of runs on one instance the engine is initialised
\* successfully at most once; a run that begins after a successful
\* initialisation does not call load_model and finds self.model set, however
\* the runs since then ended, and self.model is never unset; a run whose
\* initialisation failed leaves self.model None, and the run after it calls
\* load_model again.
C21_EngineInitialisedOnce ==
    /\ [](Loads <= 1)
    /\ [](Count(inits, "loaded") > 0 =>
             (~TriedInRun /\ model = "WhisperModel"))
    /\ [](since \subseteq {"completed", "cancelled", "failed"})
    /\ [](InitFailedInRun => (model = "None" /\ pc = "raised"))
    /\ []((last_init_failed /\ pc # "idle") => TriedInRun)
    /\ [][model = "WhisperModel" => model' = "WhisperModel"]_vars

\* C21 witness: the first run failed to initialise the engine, the second
\* initialised it, runs after it have completed, been cancelled and failed,
\* and one more run has now completed without calling load_model.
C21_Witness ==
    /\ inits = <<"failed", "loaded">>
    /\ since = {"completed", "cancelled", "failed"}
    /\ pc = "returned"
    /\ outcome.kind = "path"
    /\ ~TriedInRun
    /\ model = "WhisperModel"

====
